---------------------------- MODULE Spec2Model ----------------------------
(***************************************************************************)
(* A model of trippy's bgFinder (src/trippy/bgFinder.py): the background   *)
(* estimators of a flattened sample, the dispatcher __call__, and the      *)
(* adaptive estimator smartBackground with its cached Gaussian fit.        *)
(*                                                                         *)
(* Numbers.  Sample values are integers (floats that hold whole numbers).  *)
(* An estimator's result is an exact rational <<n, d>> in lowest terms     *)
(* with d > 0, or NaN == <<0, 0>>.  The parameters of the Gaussian fit     *)
(* live on a grid: <<M, S>> stands for mean M/Grid and std S/Grid.         *)
(* Floating-point rounding is not modelled.                                *)
(***************************************************************************)
EXTENDS Integers, Sequences, FiniteSets

\* ------------------------------------------------------------------------
\* Bounds of the model.
\* ------------------------------------------------------------------------

\* Longest sample of the main specification.
MaxLen == 4

\* Longest sample of the histogram specification.
HistMaxLen == 5

\* Grid units per unit of the fit's parameters (mean, std).
Grid == 2

\* Values a sample of the main specification is drawn from.
Values == {-3, 1, 9}

\* Values a sample of the histogram specification is drawn from.
HistValues == {0, 1, 2, 3}

\* ------------------------------------------------------------------------
\* Arithmetic.
\* ------------------------------------------------------------------------

NaN == <<0, 0>>

\* The marker of an absent optional argument, or of an unset cache.
None == <<>>

Abs(x) == IF x < 0 THEN -x ELSE x

Max2(a, b) == IF a >= b THEN a ELSE b

RECURSIVE GCD(_, _)
GCD(a, b) == IF b = 0 THEN a ELSE GCD(b, a % b)

\* The rational n/d (d # 0) in lowest terms with a positive denominator.
Rat(n, d) ==
    LET g == GCD(Abs(n), Abs(d))
        sgn == IF d < 0 THEN -1 ELSE 1
    IN  <<(sgn * n) \div g, (sgn * d) \div g>>

\* The fit parameters [m, s] on the grid, and the array [nan, nan].
Pt(M, S) == <<M, S, 0>>

NaNs == <<0, 0, 1>>

\* Integer division truncating toward zero, as astype(int) truncates.
TruncDiv(n, d) == IF n >= 0 THEN n \div d ELSE -((-n) \div d)

RECURSIVE SumSeq(_)
SumSeq(s) == IF s = <<>> THEN 0 ELSE Head(s) + SumSeq(Tail(s))

RECURSIVE SumSq(_)
SumSq(s) == IF s = <<>> THEN 0 ELSE Head(s) * Head(s) + SumSq(Tail(s))

\* Insert x into the ascending sequence s.
RECURSIVE Insert(_, _)
Insert(x, s) ==
    IF s = <<>> THEN <<x>>
    ELSE IF x <= Head(s) THEN <<x>> \o s
    ELSE <<Head(s)>> \o Insert(x, Tail(s))

\* num.sort: an ascending copy.
RECURSIVE Sort(_)
Sort(s) == IF s = <<>> THEN <<>> ELSE Insert(Head(s), Sort(Tail(s)))

\* The largest r with r * r <= n, for n >= 0.
Isqrt(n) == CHOOSE r \in 0..n : r * r <= n /\ (r + 1) * (r + 1) > n

\* ------------------------------------------------------------------------
\* Construction.
\* ------------------------------------------------------------------------

\* num.ravel of a two-dimensional array: its rows, one after the other.
RECURSIVE ravel(_)
ravel(a) == IF a = <<>> THEN <<>> ELSE Head(a) \o ravel(Tail(a))

\* ------------------------------------------------------------------------
\* The leaf estimators, as functions of the sample d.
\* ------------------------------------------------------------------------

\* num.median: the middle value of the sorted sample, or the mean of the two
\* middle values; nan on an empty sample.
npMedian(d) ==
    LET b == Sort(d)
        n == Len(d)
        h == n \div 2
    IN  IF n = 0 THEN NaN
        ELSE IF n % 2 = 1 THEN Rat(b[h + 1], 1)
        ELSE Rat(b[h] + b[h + 1], 2)

\* num.mean: nan on an empty sample.
npMean(d) == IF Len(d) = 0 THEN NaN ELSE Rat(SumSeq(d), Len(d))

\* ------------------------------------------------------------------------
\* Results, events and the outcome of a method.
\* ------------------------------------------------------------------------

\* A returned number.
Val(r) == [kind |-> "value", val |-> r, err |-> ""]

\* A raised exception.
Err(e) == [kind |-> "error", val |-> NaN, err |-> e]

\* One step of a call: ev names what ran ("median", "mean", "stats",
\* "fraserMode", "fit", the threshold "test", the "backup" invocation), depth
\* counts the backup invocations it ran inside, x0 is the start handed to the
\* optimizer (None when ev is not "fit").
Event(e, depth, x0) == [ev |-> e, depth |-> depth, x0 |-> x0]

\* The events of a call made from inside a backup invocation.
Deeper(tr) == [i \in 1..Len(tr) |-> [tr[i] EXCEPT !.depth = @ + 1]]

\* The object: its data and its cached fit (None until the first fit).
Obj(d, g) == [data |-> d, gauss |-> g]

\* What a method call leaves: its result, the object after it, what it ran.
Out(r, self, tr) == [ret |-> r, self |-> self, trace |-> tr]

\* ------------------------------------------------------------------------
\* histMode: _ahist and _stats.
\* ------------------------------------------------------------------------

\* 0-based index of the histogram's upper bound in the sorted sample.
UpperIndex(n) == n - Max2(1, n \div 100)

\* 0-based index of the histogram's lower bound in the sorted sample.
LowerIndex(n) == n - (99 * n) \div 100

\* num.searchsorted(b, edge) for edge = mn + i * (mx - mn) / nbins, nbins = p/q:
\* the number of elements of b below the edge.
SearchSorted(b, mn, mx, p, q, i) ==
    Cardinality({j \in 1..Len(b) : (b[j] - mn) * p < i * (mx - mn) * q})

\* The body of _ahist on the sorted copy b, nbins = p/q: the per-bin counts
\* (bin k is counts[k + 1]), the bin width w and the lower bound mn.  ok is FALSE
\* when an index falls outside b (IndexError) or the width is zero, where
\* num.arange raises or yields no bin at all and _stats then fails on the empty
\* histogram.
Histogram(b, nbins) ==
    LET n == Len(b)
        p == nbins[1]
        q == nbins[2]
    IN  IF n = 0 \/ LowerIndex(n) >= n
        THEN [ok |-> FALSE, err |-> "IndexError", counts |-> <<>>, w |-> NaN, mn |-> 0]
        ELSE LET mx == b[UpperIndex(n) + 1]
                 mn == b[LowerIndex(n) + 1]
                 K == (p + q - 1) \div q
                 nn == [i \in 0..K |-> IF i = K THEN n
                                       ELSE SearchSorted(b, mn, mx, p, q, i)]
             IN  IF mx = mn
                 THEN [ok |-> FALSE, err |-> "ZeroWidth", counts |-> <<>>, w |-> NaN, mn |-> mn]
                 ELSE [ok |-> TRUE, err |-> "",
                       counts |-> [k \in 1..K |-> nn[k] - nn[k - 1]],
                       w |-> Rat((mx - mn) * q, p), mn |-> mn]

\* _ahist, were it to sort self.data in place instead of sorting a copy.
_ahistSortsInPlace(self, nbins) ==
    [h |-> Histogram(Sort(self.data), nbins),
     self |-> [self EXCEPT !.data = Sort(self.data)]]

\* _ahist: the histogram of a sorted copy of the data; the object is left as
\* it was.
_ahist(self, nbins) == [h |-> Histogram(Sort(self.data), nbins), self |-> self]

\* ZeroEdges, were the first bin left as counted.
ZeroLastBin(c) == [k \in 1..Len(c) |-> IF k = Len(c) THEN 0 ELSE c[k]]

\* The counts with the last bin, then the first bin, set to zero.
ZeroEdges(c) == [k \in 1..Len(c) |-> IF k = 1 \/ k = Len(c) THEN 0 ELSE c[k]]

\* num.argmax, 0-based: the first index holding the maximum.
ArgMax(c) ==
    (CHOOSE i \in 1..Len(c) :
        /\ \A j \in 1..Len(c) : c[j] <= c[i]
        /\ \A j \in 1..(i - 1) : c[j] < c[i]) - 1

\* _stats: <<mode, std of mode>>, mode = am * w + l.
_stats(self, nbins) ==
    LET a == _ahist(self, nbins)
        h == a.h
    IN  IF ~h.ok THEN Out(Err(h.err), a.self, <<Event("stats", 0, None)>>)
        ELSE LET b == ZeroEdges(h.counts)
                 am == ArgMax(b)
                 half == b[am + 1] \div 2
                 c == Cardinality({k \in 1..Len(b) : b[k] > half})
                 mode == Rat(am * h.w[1] + h.mn * h.w[2], h.w[2])
                 sd == Rat(c * h.w[1] * 100, h.w[2] * 2 * 141)
             IN  Out(Val(<<mode, sd>>), a.self, <<Event("stats", 0, None)>>)

\* ------------------------------------------------------------------------
\* fraserMode.
\* ------------------------------------------------------------------------

\* Quantize, were the cast to round toward minus infinity.
QuantizeFloor(v, multi) == (v * multi[1]) \div multi[2]

\* (self.data * multi).astype(int) for one value, multi = p/q.
Quantize(v, multi) == TruncDiv(v * multi[1], multi[2])

\* How often q occurs in y.
Count(y, q) == Cardinality({i \in 1..Len(y) : y[i] = q})

\* stats.mode: the most common value, the smallest of them on a tie.
statsMode(y) ==
    LET S == {y[i] : i \in 1..Len(y)}
        most == {q \in S : \A r \in S : Count(y, r) <= Count(y, q)}
    IN  CHOOSE q \in most : \A r \in most : q <= r

\* self.data[w[0]]: the values at the indices where y equals mode, in order.
RECURSIVE Where(_, _, _)
Where(d, y, mode) ==
    IF d = <<>> THEN <<>>
    ELSE (IF Head(y) = mode THEN <<Head(d)>> ELSE <<>>) \o Where(Tail(d), Tail(y), mode)

_fraserMode(self, multi) ==
    LET d == self.data
        y == [i \in 1..Len(d) |-> Quantize(d[i], multi)]
    IN  IF Len(d) = 0 THEN Out(Val(NaN), self, <<Event("fraserMode", 0, None)>>)
        ELSE Out(Val(npMedian(Where(d, y, statsMode(y)))), self,
                 <<Event("fraserMode", 0, None)>>)

\* ------------------------------------------------------------------------
\* gaussFit: the likelihood, the optimizer and the fit.
\* ------------------------------------------------------------------------

\* 1000 * ln(k), rounded, for k = 1..40.
LnTable ==
    <<0, 693, 1099, 1386, 1609, 1792, 1946, 2079, 2197, 2303,
      2398, 2485, 2565, 2639, 2708, 2773, 2833, 2890, 2944, 2996,
      3045, 3091, 3135, 3178, 3219, 3258, 3296, 3332, 3367, 3401,
      3434, 3466, 3497, 3526, 3555, 3584, 3611, 3638, 3664, 3689>>

\* num.log on the grid: 1000 * ln(k) for k >= 1, linear past the table.
Ln1000(k) ==
    IF k <= Len(LnTable) THEN LnTable[k]
    ELSE LnTable[Len(LnTable)] + 25 * (k - Len(LnTable))

\* _gaussLike at x = Pt(M, S), times 1000: [nan |-> TRUE] where the code's
\* arithmetic gives nan (s = 0: a division by zero and the log of zero; or a
\* nan parameter).
_gaussLike(d, x) ==
    LET M == x[1]
        S == x[2]
        n == Len(d)
        s1 == SumSeq(d)
        s2 == SumSq(d)
        \* sum((d - m)^2), in squared grid units
        ss == Grid * Grid * s2 - 2 * Grid * M * s1 + n * M * M
    IN  IF x = NaNs \/ S = 0 THEN [nan |-> TRUE, v |-> 0]
        ELSE [nan |-> FALSE,
              v |-> (1000 * ss) \div (2 * S * S)
                    + n * (919 + Ln1000(Abs(S)) - Ln1000(Grid))]

\* Whether the objective value a is better than b; nan is worse than any number,
\* as the optimizer's sort of its simplex puts nan last.
Better(a, b) == ~a.nan /\ (b.nan \/ a.v < b.v)

\* The first best point among the four grid neighbours of x.
BestNeighbour(d, x) ==
    LET c == <<Pt(x[1], x[2] + 1), Pt(x[1], x[2] - 1),
               Pt(x[1] + 1, x[2]), Pt(x[1] - 1, x[2])>>
        f == <<_gaussLike(d, c[1]), _gaussLike(d, c[2]),
               _gaussLike(d, c[3]), _gaussLike(d, c[4])>>
        k == CHOOSE i \in 1..4 :
                 /\ \A j \in 1..4 : ~Better(f[j], f[i])
                 /\ \A j \in 1..(i - 1) : Better(f[i], f[j]) \/ (f[i].nan /\ f[j].nan)
    IN  c[k]

\* opti.fmin(self._gaussLike, x0, disp=False): a derivative-free descent from
\* x0 on the grid, to a point none of whose neighbours is better.  It raises
\* nothing; from a nan start every comparison fails and the start comes back.
RECURSIVE fmin(_, _)
fmin(d, x) ==
    IF x = NaNs THEN x
    ELSE LET y == BestNeighbour(d, x)
         IN  IF Better(_gaussLike(d, y), _gaussLike(d, x)) THEN fmin(d, y) ELSE x

\* num.std on the grid: Grid * sqrt(mean((d - mean(d))^2)), rounded down.
npStd(d) ==
    LET n == Len(d)
        s1 == SumSeq(d)
        s2 == SumSq(d)
    IN  Isqrt((Grid * Grid * (n * s2 - s1 * s1)) \div (n * n))

\* The median on the grid, rounded half up.
GridOf(r) == (2 * Grid * r[1] + r[2]) \div (2 * r[2])

\* FitStart, were the fit to start from the cached result when there is one.
FitStartFromCache(self) ==
    IF self.gauss # None THEN self.gauss
    ELSE IF Len(self.data) = 0 THEN NaNs
    ELSE Pt(GridOf(npMedian(self.data)), npStd(self.data))

\* The start the fit hands to the optimizer: [med, std] of the data.
FitStart(self) ==
    IF Len(self.data) = 0 THEN NaNs
    ELSE Pt(GridOf(npMedian(self.data)), npStd(self.data))

\* A grid coordinate as a number.
FromGrid(m) == Rat(m, Grid)

\* _gaussFit: fit, cache res in self.gauss, return res[0].
_gaussFit(self) ==
    LET x0 == FitStart(self)
        res == fmin(self.data, x0)
    IN  Out(Val(IF res = NaNs THEN NaN ELSE FromGrid(res[1])),
            [self EXCEPT !.gauss = res],
            <<Event("fit", 0, x0)>>)

\* ------------------------------------------------------------------------
\* The direct methods.
\* ------------------------------------------------------------------------

\* The defaults of the optional arguments: 50 bins, multi 0.1, limit 1.1.
DefaultBins == <<50, 1>>

DefaultMulti == <<1, 10>>

DefaultLimit == <<11, 10>>

\* o[0] of a returned pair; an exception passes through.
First(o) == IF o.ret.kind = "value" THEN [o EXCEPT !.ret = Val(o.ret.val[1])] ELSE o

histMode(self, nbins) == First(_stats(self, nbins))

median(self) == Out(Val(npMedian(self.data)), self, <<Event("median", 0, None)>>)

mean(self) == Out(Val(npMean(self.data)), self, <<Event("mean", 0, None)>>)

fraserMode(self, multi) == _fraserMode(self, multi)

gaussFit(self) == _gaussFit(self)

\* ------------------------------------------------------------------------
\* The dispatcher and the adaptive estimator.
\* ------------------------------------------------------------------------

\* (s / g**0.5) > gaussStdLimit for gauss = Pt(M, S) and a limit p/q > 0.  A
\* negative g makes g**0.5 nan and a zero g makes the quotient inf, -inf or
\* nan; a comparison with nan is False.
Contaminated(gauss, limit) ==
    LET M == gauss[1]
        S == gauss[2]
        p == limit[1]
        q == limit[2]
    IN  IF gauss = NaNs \/ M < 0 THEN FALSE
        ELSE IF M = 0 THEN S > 0
        ELSE S > 0 /\ S * S * q * q > p * p * Grid * M

RECURSIVE dispatch(_, _, _)
RECURSIVE call(_, _, _)
RECURSIVE smartBackground(_, _, _, _)


\* The method names __call__ knows.
Known == {"median", "mean", "histMode", "fraserMode", "gaussFit", "smart"}

\* The branches of __call__ for the names it knows.
dispatch(self, method, inp) ==
    CASE method = "median" ->
            Out(Val(npMedian(self.data)), self, <<Event("median", 0, None)>>)
      [] method = "mean" ->
            Out(Val(npMean(self.data)), self, <<Event("mean", 0, None)>>)
      [] method = "histMode" ->
            First(_stats(self, IF inp = None THEN DefaultBins ELSE inp))
      [] method = "fraserMode" ->
            _fraserMode(self, IF inp = None THEN DefaultMulti ELSE inp)
      [] method = "gaussFit" -> _gaussFit(self)
      [] method = "smart" ->
            smartBackground(self, DefaultLimit, "fraserMode", None)

\* call, were an unknown name to fall back to the default method, median.
callDefaultsToMedian(self, method, inp) ==
    IF method \in Known THEN dispatch(self, method, inp)
    ELSE Out(Val(npMedian(self.data)), self, <<Event("median", 0, None)>>)

\* __call__(method, inp): the branch of a known name, ValueError otherwise.
call(self, method, inp) ==
    IF method \in Known THEN dispatch(self, method, inp)
    ELSE Out(Err("ValueError"), self, <<>>)

\* g=self(backupMode): the backup's result b is the result of smartBackground;
\* tr is what smartBackground ran before it.
lastBackup(tr, b) ==
    Out(b.ret, b.self, tr \o <<Event("backup", 0, None)>> \o Deeper(b.trace))

\* g=self(backupMode,inp), made only when inp is given: unless it raised, its
\* result a is dropped and the backup is called again without inp.
firstBackup(tr, a, backupMode) ==
    IF a.ret.kind = "error"
    THEN Out(a.ret, a.self, tr \o <<Event("backup", 0, None)>> \o Deeper(a.trace))
    ELSE lastBackup(tr \o <<Event("backup", 0, None)>> \o Deeper(a.trace),
                    call(a.self, backupMode, None))

\* smartBackground after its fit f: the threshold test on the cached fit, then
\* the fit's mean or the backup.
afterFit(f, gaussStdLimit, backupMode, inp) ==
    IF ~Contaminated(f.self.gauss, gaussStdLimit)
    THEN Out(f.ret, f.self, f.trace \o <<Event("test", 0, None)>>)
    ELSE IF inp # None
    THEN firstBackup(f.trace \o <<Event("test", 0, None)>>,
                     call(f.self, backupMode, inp), backupMode)
    ELSE lastBackup(f.trace \o <<Event("test", 0, None)>>,
                    call(f.self, backupMode, None))

\* smartBackground(gaussStdLimit, backupMode, inp), verbose and display off.
smartBackground(self, gaussStdLimit, backupMode, inp) ==
    afterFit(_gaussFit(self), gaussStdLimit, backupMode, inp)

\* ------------------------------------------------------------------------
\* The state machine: an object is constructed, then methods are called on
\* it, one at a time; the caller takes each result before the next call.
\* ------------------------------------------------------------------------

VARIABLES
    input,   \* the array handed to the constructor: a sequence of rows
    data,    \* self.data
    gauss,   \* self.gauss: None until a fit has run, then Pt(M, S) or NaNs
    op,      \* the call that has returned and its arguments, or NoOp
    result,  \* what that call returned or raised
    trace    \* what that call ran, in order

vars == <<input, data, gauss, op, result, trace>>

\* The r x c arrays over V holding at most n values, r <= 2.
Arrays(V, n) ==
    {<<>>} \cup UNION {[1..rc[1] -> [1..rc[2] -> V]] :
                         rc \in {x \in (1..2) \X (0..n) : x[1] * x[2] <= n}}

Inputs == Arrays(Values, MaxLen)

\* The arguments the calls are made with.
BinArgs == {DefaultBins, <<2, 1>>}

MultiArgs == {DefaultMulti, <<1, 2>>}

InpArgs == {None, <<3, 1>>}

LimitArgs == {DefaultLimit, <<3, 1>>}

MethodArgs == Known \cup {"bogus"}

BackupArgs == {"fraserMode", "histMode", "gaussFit", "smart", "bogus"}

\* A call and its arguments ("-" and None where it takes none).
Op(name, method, inp, limit) == [name |-> name, method |-> method, inp |-> inp, limit |-> limit]

\* No call has returned a result the caller still holds.
NoOp == Op("none", "-", None, None)

NoResult == [kind |-> "none", val |-> NaN, err |-> ""]

\* bgFinder(a): __init__ flattens the array.
Construct(a) ==
    /\ input = a
    /\ data = ravel(a)
    /\ gauss = None
    /\ op = NoOp
    /\ result = NoResult
    /\ trace = <<>>

Init == \E a \in Inputs : Construct(a)

\* The call o made as operation o_op: the object and the caller's view after it.
Do(o, o_op) ==
    /\ op = NoOp
    /\ data' = o.self.data
    /\ gauss' = o.self.gauss
    /\ result' = o.ret
    /\ trace' = o.trace
    /\ op' = o_op
    /\ UNCHANGED input

Median == Do(median(Obj(data, gauss)), Op("median", "-", None, None))

Mean == Do(mean(Obj(data, gauss)), Op("mean", "-", None, None))

HistMode ==
    \E nbins \in BinArgs :
        Do(histMode(Obj(data, gauss), nbins), Op("histMode", "-", nbins, None))

FraserMode ==
    \E multi \in MultiArgs :
        Do(fraserMode(Obj(data, gauss), multi), Op("fraserMode", "-", multi, None))

GaussFit == Do(gaussFit(Obj(data, gauss)), Op("gaussFit", "-", None, None))

SmartBackground ==
    \E limit \in LimitArgs, backup \in BackupArgs, inp \in InpArgs :
        Do(smartBackground(Obj(data, gauss), limit, backup, inp),
           Op("smartBackground", backup, inp, limit))

Call ==
    \E method \in MethodArgs, inp \in InpArgs :
        Do(call(Obj(data, gauss), method, inp), Op("call", method, inp, None))

\* The caller has taken the result; the object is ready for the next call.
Return ==
    /\ op # NoOp
    /\ op' = NoOp
    /\ result' = NoResult
    /\ trace' = <<>>
    /\ UNCHANGED <<input, data, gauss>>

Next ==
    \/ Median
    \/ Mean
    \/ HistMode
    \/ FraserMode
    \/ GaussFit
    \/ SmartBackground
    \/ Call
    \/ Return

Spec == Init /\ [][Next]_vars

\* The histogram estimator alone, on longer samples of more distinct values.
HistInputs == {<<d>> : d \in UNION {[1..n -> HistValues] : n \in 0..HistMaxLen}}

HistBinArgs == {DefaultBins, <<4, 1>>, <<5, 1>>}

InitHist == \E a \in HistInputs : Construct(a)

HistModeOnly ==
    \E nbins \in HistBinArgs :
        Do(histMode(Obj(data, gauss), nbins), Op("histMode", "-", nbins, None))

NextHist == HistModeOnly

SpecHist == InitHist /\ [][NextHist]_vars

\* ------------------------------------------------------------------------
\* Properties.
\* ------------------------------------------------------------------------

\* The call that has returned is the strategy m, by its direct method or
\* through the dispatcher.
Ran(m, direct) == op.name = direct \/ (op.name = "call" /\ op.method = m)

\* The k-th smallest (k from 0) of the values of d at the indices I.
KthOver(d, I, k) ==
    CHOOSE x \in {d[i] : i \in I} :
        /\ Cardinality({i \in I : d[i] < x}) <= k
        /\ k < Cardinality({i \in I : d[i] <= x})

\* The median of the values of d at the indices I (I not empty).
MedianOver(d, I) ==
    LET n == Cardinality(I)
    IN  Rat(KthOver(d, I, (n - 1) \div 2) + KthOver(d, I, n \div 2), 2)

\* C1: a method name outside the six known ones makes the dispatcher fail
\* with ValueError whatever the parameter: nothing is returned, no estimator
\* runs, and the sample and the cached fit stay as they were.
C1_UnknownMethodRaises ==
    [][(op'.name = "call" /\ op'.method \notin Known) =>
          /\ result' = Err("ValueError")
          /\ trace' = <<>>
          /\ data' = data
          /\ gauss' = gauss]_vars

\* C1's case: an unknown name was called with a parameter on an object whose
\* fit is cached.
C1_Witness ==
    /\ op.name = "call"
    /\ op.method \notin Known
    /\ op.inp # None
    /\ gauss # None
    /\ result.kind = "error"

\* C2: the dispatcher hands its parameter to the strategy: call('histMode', n)
\* is histMode(nbins=n), call('fraserMode', n) is fraserMode(multi=n),
\* call('smart', n) is the adaptive estimator with n as its threshold, and
\* without a parameter each runs with its default (50, 0.1, 1.1).
C2_DispatcherForwardsParameter ==
    LET self == Obj(data, gauss)
        n == op.inp
    IN  /\ (op.name = "call" /\ op.method = "histMode") =>
              result = histMode(self, IF n = None THEN DefaultBins ELSE n).ret
        /\ (op.name = "call" /\ op.method = "fraserMode") =>
              result = fraserMode(self, IF n = None THEN DefaultMulti ELSE n).ret
        /\ (op.name = "call" /\ op.method = "smart") =>
              result = smartBackground(self, IF n = None THEN DefaultLimit ELSE n,
                                       "fraserMode", None).ret

\* C3: with a positive fitted mean, the adaptive estimator returns the fit's
\* mean when std/sqrt(mean) <= gaussStdLimit, and otherwise the result of the
\* backup called with the optional parameter when one is given (without it
\* only when none is given).
C3_SmartReturnsFitOrBackup ==
    (op.name = "smartBackground" /\ gauss # NaNs /\ gauss[1] > 0) =>
        result = IF ~Contaminated(gauss, op.limit)
                 THEN Val(FromGrid(gauss[1]))
                 ELSE call(Obj(data, gauss), op.method, op.inp).ret

\* A sample that is empty or holds one value only, repeated.
Degenerate(d) == \A i, j \in 1..Len(d) : d[i] = d[j]

\* C4: on a degenerate sample histMode, gaussFit and smart end in an error;
\* none returns a number.
C4_DegenerateSampleRaises ==
    (/\ Degenerate(data)
     /\ \/ Ran("histMode", "histMode")
        \/ Ran("gaussFit", "gaussFit")
        \/ Ran("smart", "smartBackground")) =>
        result.kind = "error"

\* C5: when the fit inside the adaptive estimator has a mean <= 0, the
\* adaptive estimator ends in an error and returns neither the fit's mean nor
\* a backup result.
C5_NonPositiveMeanRaises ==
    (Ran("smart", "smartBackground") /\ gauss # NaNs /\ gauss[1] <= 0) =>
        result.kind = "error"

\* C6: gaussFit depends on the sample alone.  Whatever was called before, it
\* starts the optimizer from (median, std) of the sample and returns the mean
\* it caches; when a fit is cached already, it caches the same pair again.
C6_GaussFitFromSampleAlone ==
    [][op'.name = "gaussFit" =>
          /\ Len(trace') = 1
          /\ trace'[1].x0 = (IF data = <<>> THEN NaNs
                             ELSE Pt(GridOf(npMedian(data)), npStd(data)))
          /\ result' = Val(IF gauss' = NaNs THEN NaN ELSE FromGrid(gauss'[1]))
          /\ (gauss # None => gauss' = gauss)]_vars

\* C6's case: gaussFit has run on a sample where the fit it caches is not the
\* start, so that a start taken from the cache would differ.
C6_Witness ==
    /\ op.name = "gaussFit"
    /\ gauss # NaNs
    /\ trace[1].x0 # gauss

\* The number of events of tr that are e at nesting depth <= depth.
CountEv(tr, e, depth) ==
    Cardinality({i \in 1..Len(tr) : tr[i].ev = e /\ tr[i].depth <= depth})

\* C7: a call of the adaptive estimator runs the fit exactly once, first, then
\* the threshold test, then the backup at most once, and never fits again.
C7_SmartFitsOnceBackupOnce ==
    Ran("smart", "smartBackground") =>
        /\ Len(trace) >= 2
        /\ trace[1].ev = "fit"
        /\ trace[2].ev = "test"
        /\ CountEv(trace, "fit", 2) = 1
        /\ CountEv(trace, "backup", 0) <= 1

\* C8: the sample is the flattened array given at construction, in every
\* state; the cached fit changes only in a call that ran the fit; and median,
\* mean, histMode and fraserMode, direct or dispatched, leave both alone.
C8_SampleAndCacheFrame ==
    /\ data = ravel(input)
    /\ [][/\ data' = ravel(input')
          /\ input' = input
          /\ (gauss' # gauss => \E i \in 1..Len(trace') : trace'[i].ev = "fit")
          /\ ((\/ op'.name \in {"median", "mean", "histMode", "fraserMode"}
               \/ (/\ op'.name = "call"
                   /\ op'.method \in {"median", "mean", "histMode", "fraserMode"}))
              => (data' = data /\ gauss' = gauss))]_vars

\* C8's case: histMode has returned a mode for an unsorted sample of an
\* object whose fit is cached.
C8_Witness ==
    /\ op.name = "histMode"
    /\ result.kind = "value"
    /\ gauss # None
    /\ data # Sort(data)

\* v * multi cut to an integer toward zero, multi = p/q: the k of the same
\* sign as v * multi with |k| <= |v * multi| < |k| + 1.
TowardZero(v, multi) ==
    LET x == v * multi[1]
        q == multi[2]
    IN  CHOOSE k \in (-Abs(x))..Abs(x) :
            IF x >= 0 THEN k * q <= x /\ x < (k + 1) * q
            ELSE (k - 1) * q < x /\ x <= k * q

\* floor(v * multi), multi = p/q: the k with k <= v * multi < k + 1.
Floor(v, multi) ==
    LET x == v * multi[1]
        q == multi[2]
    IN  CHOOSE k \in (-Abs(x) - 1)..Abs(x) : k * q <= x /\ x < (k + 1) * q

\* The median of the values of d whose label in y is the most frequent label,
\* the smallest such label on a tie.
MedianOfModalLabel(d, y) ==
    LET I == 1..Len(d)
        freq(m) == Cardinality({i \in I : y[i] = m})
        mode == CHOOSE m \in {y[i] : i \in I} :
                    \A i \in I : \/ freq(y[i]) < freq(m)
                                 \/ (freq(y[i]) = freq(m) /\ m <= y[i])
    IN  MedianOver(d, {i \in I : y[i] = mode})

\* C9, as amended: on a non-empty sample fraserMode(multi) returns the median
\* of the sample values whose quantized value, v * multi cut toward zero, is the
\* most frequent quantized value, the smallest one on a tie.
C9_FraserModeTruncates ==
    (op.name = "fraserMode" /\ data # <<>>) =>
        result = Val(MedianOfModalLabel(data,
                        [i \in 1..Len(data) |-> TowardZero(data[i], op.inp)]))

\* C9 as claimed: the quantized value is floor(v * multi), negative values
\* included.
C9_FraserModeFloors ==
    (op.name = "fraserMode" /\ data # <<>>) =>
        result = Val(MedianOfModalLabel(data,
                        [i \in 1..Len(data) |-> Floor(data[i], op.inp)]))

\* C9's case: fraserMode has run on a sample with a negative value that
\* cutting toward zero and floor quantize differently, and two quantized
\* values tie for the most frequent.
C9_Witness ==
    /\ op.name = "fraserMode"
    /\ result.kind = "value"
    /\ \E i \in 1..Len(data) :
           data[i] < 0 /\ TowardZero(data[i], op.inp) # Floor(data[i], op.inp)
    /\ \E i, j \in 1..Len(data) :
           LET y == [k \in 1..Len(data) |-> TowardZero(data[k], op.inp)]
           IN  /\ y[i] # y[j]
               /\ Count(y, y[i]) = Count(y, y[j])
               /\ \A k \in 1..Len(data) : Count(y, y[k]) <= Count(y, y[i])

\* lower + k * w of the claim for nbins = p bins: lower and upper are the
\* values of rank len - floor(99 len / 100) and len - max(1, floor(len / 100))
\* (ranks from 0), w = (upper - lower) / p, bin j holds the values v with
\* lower + j w <= v < lower + (j + 1) w, the first and the last bin count as
\* empty, and k is the lowest bin of maximal count.
LowerBound(d) == KthOver(d, 1..Len(d), Len(d) - (99 * Len(d)) \div 100)

UpperBound(d) == KthOver(d, 1..Len(d), Len(d) - Max2(1, Len(d) \div 100))

ModeOfBins(d, p) ==
    LET lo == LowerBound(d)
        up == UpperBound(d)
        cnt == [j \in 0..(p - 1) |->
                   IF j = 0 \/ j = p - 1 THEN 0
                   ELSE Cardinality({i \in 1..Len(d) :
                            /\ j * (up - lo) <= (d[i] - lo) * p
                            /\ (d[i] - lo) * p < (j + 1) * (up - lo)})]
        k == CHOOSE j \in 0..(p - 1) :
                 /\ \A m \in 0..(p - 1) : cnt[m] <= cnt[j]
                 /\ \A m \in 0..(j - 1) : cnt[m] < cnt[j]
    IN  Rat(lo * p + k * (up - lo), p)

=============================================================================
